---------------------------- MODULE Spec2Model ----------------------------
(***************************************************************************)
(* A model of the YouTube TTS generator (src/script.js): the serverless    *)
(* relay `handler` (lines 255-407) that forwards a synthesis request to    *)
(* the upstream text-to-speech provider and transcodes its base64 answer   *)
(* into an audio/mpeg response, and the browser client (lines 1-197).      *)
(*                                                                         *)
(* JavaScript values are records [type, val]: val is a sequence of         *)
(* characters for a string and the literal for a number.                   *)
(***************************************************************************)
EXTENDS Integers, Sequences, FiniteSets, TLC

\* ------------------------------------------------------------------ bounds
\* Longest decoded audio (in bytes) the upstream answers with.
MaxBytes == 3
\* Relay invocations served in one behaviour.
MaxServed == 3
\* Longest text typed into the form, without the blanks around it.
MaxText == 10
\* Blanks typed before the text, and after it.
MaxBlank == 1
\* Relay calls of the client awaiting their answer at one time.
MaxInFlight == 2

\* ------------------------------------------------------------- JS values
Undefined == [type |-> "undefined", val |-> <<>>]
Str(s) == [type |-> "string", val |-> s]
Num(n) == [type |-> "number", val |-> <<n>>]

\* JavaScript's ToBoolean negated, as `!v` and `v || d` apply it.
Falsy(v) ==
    \/ v.type = "undefined"
    \/ v.type = "null"
    \/ v.type = "string" /\ v.val = <<>>
    \/ v.type = "number" /\ v.val = <<0>>

\* a || d
OrElse(v, d) == IF Falsy(v) THEN d ELSE v

\* ----------------------------------------------------------------- base64
\* A base64 string is a sequence of symbols: 0..63 are the alphabet's
\* characters by value, Pad is "=", Junk a character outside the alphabet
\* (a line break).
Pad == 64
Junk == 65

RECURSIVE Base64Encode(_)
\* The provider's encoding of the audio bytes (RFC 4648, padded).
Base64Encode(B) ==
    IF Len(B) = 0 THEN <<>>
    ELSE IF Len(B) = 1 THEN
        << B[1] \div 4, (B[1] % 4) * 16, Pad, Pad >>
    ELSE IF Len(B) = 2 THEN
        << B[1] \div 4, (B[1] % 4) * 16 + (B[2] \div 16), (B[2] % 16) * 4, Pad >>
    ELSE
        << B[1] \div 4, (B[1] % 4) * 16 + (B[2] \div 16),
           (B[2] % 16) * 4 + (B[3] \div 64), B[3] % 64 >>
        \o Base64Encode(SubSeq(B, 4, Len(B)))

RECURSIVE Sextets(_)
\* The legal characters of a base64 string up to its first "=": the decoder
\* skips characters outside the alphabet and stops at the padding.
Sextets(s) ==
    IF Len(s) = 0 \/ s[1] = Pad THEN <<>>
    ELSE IF s[1] < 64 THEN <<s[1]>> \o Sextets(Tail(s))
    ELSE Sextets(Tail(s))

RECURSIVE Pack(_)
\* Groups of four sextets make three bytes; a trailing group of two makes
\* one byte, of three makes two, and a single trailing sextet none.
Pack(q) ==
    IF Len(q) < 2 THEN <<>>
    ELSE IF Len(q) = 2 THEN << q[1] * 4 + (q[2] \div 16) >>
    ELSE IF Len(q) = 3 THEN
        << q[1] * 4 + (q[2] \div 16), (q[2] % 16) * 16 + (q[3] \div 4) >>
    ELSE
        << q[1] * 4 + (q[2] \div 16), (q[2] % 16) * 16 + (q[3] \div 4),
           (q[3] % 4) * 64 + q[4] >>
        \o Pack(SubSeq(q, 5, Len(q)))

Base64DecodePadAsZero(s) ==
    LET kept == SelectSeq(s, LAMBDA x : x <= Pad)
    IN Pack([i \in 1..Len(kept) |-> IF kept[i] = Pad THEN 0 ELSE kept[i]])
\* Buffer.from(audioContent, 'base64')
Base64Decode(s) == Pack(Sextets(s))

\* ------------------------------------------------------------------ state
\* The relay: process.env.GOOGLE_CLOUD_API_KEY; the invocation of handler
\* being served (its request, its locals, what it logged and what it sent);
\* the number of invocations so far.
VARIABLES env, call, served

\* The client page: the form's text; the elements the script drives (which
\* panels carry the class 'show', generateBtn.disabled, errorText's content,
\* the player's source); the stored blob; the relay calls awaiting their
\* answer; the file the last download saved.
VARIABLES scriptInput, dom, currentAudioBlob, inflight, lastSave

relayVars == <<env, call, served>>
clientVars == <<scriptInput, dom, currentAudioBlob, inflight, lastSave>>
vars == <<relayVars, clientVars>>

\* ------------------------------------------------------------ the relay

\* Messages of the relay (the string literals of handler).
MsgMethod == "Method not allowed. Use POST."
MsgMissing == "Missing required fields: text and voice"
MsgNoKey == "Server configuration error: API key not found"
MsgUpstream == "Failed to generate speech"
MsgNoAudio == "No audio content received from Google"
MsgInternal == "Internal server error: "

\* error.message of the faults the runtime raises (the wording is the
\* engine's; what matters is which statement raises).
ErrDestructure == "Cannot destructure property 'text' of 'req.body' as it is undefined."
ErrSplit == "voice.split is not a function"
ErrFetch == "fetch failed"
ErrJson == "Unexpected token < in JSON at position 0"
ErrNullBody == "Cannot read properties of null"
ErrBufferArg == "The first argument must be of type string"

\* --- the requests the relay is invoked with
Methods == {"OPTIONS", "POST", "GET", "PUT"}
TextVals == {Undefined, Str(<<>>), Str(<<"H", "i">>)}
VoiceVals ==
    {Undefined, Str(<<>>), Num(7), Str(<<"e", "n">>),
     Str(<<"e", "n", "-", "U", "S", "-", "N", "2", "-", "A">>)}
SpeedVals == {Undefined, Num(0), Num(2)}
\* req.body when the request carried none.
NoBody == [present |-> FALSE, text |-> Undefined, voice |-> Undefined, speed |-> Undefined]
Bodies ==
    {NoBody} \cup
    [present : {TRUE}, text : TextVals, voice : VoiceVals, speed : SpeedVals]
Requests == [method : Methods, body : Bodies]
\* The credential: unset, set to the empty string, set.
EnvVals == {Undefined, Str(<<>>), Str(<<"k">>)}

\* --- what the upstream provider may answer
ByteVals == {0, 77, 255}
ByteSeqs == UNION {[1..n -> ByteVals] : n \in 0..MaxBytes}
UpStatuses == {200, 403, 503}
NoError == [present |-> FALSE, hasMessage |-> FALSE, message |-> ""]
ErrorVals ==
    {NoError,
     [present |-> TRUE, hasMessage |-> FALSE, message |-> ""],
     [present |-> TRUE, hasMessage |-> TRUE, message |-> ""],
     [present |-> TRUE, hasMessage |-> TRUE, message |-> "quota exceeded"]}
AudioVals ==
    {Undefined, Num(7), Str(<<19, Junk, 22>>)} \cup {Str(Base64Encode(B)) : B \in ByteSeqs}
\* A response body: text that is not JSON, the JSON value null, or an object
\* with its error and audioContent fields.
UpBodies ==
    {[parse |-> "invalid", error |-> NoError, audio |-> Undefined],
     [parse |-> "null", error |-> NoError, audio |-> Undefined]}
    \cup [parse : {"object"}, error : ErrorVals, audio : {Undefined}]
    \cup [parse : {"object"}, error : {NoError}, audio : AudioVals]
NoUpBody == [parse |-> "none", error |-> NoError, audio |-> Undefined]
\* fetch rejects (network failure) or resolves with a response.
Outcomes ==
    {[kind |-> "reject", status |-> 0, body |-> NoUpBody]}
    \cup [kind : {"response"}, status : UpStatuses, body : UpBodies]
NoOutcome == [kind |-> "none", status |-> 0, body |-> NoUpBody]

\* --- the response object res
\* kind: "none" until the handler sends; then "empty" (end()), "json"
\* (json({error})) or "bytes" (send(buffer)). cors: the values of the three
\* Access-Control-Allow-* headers are set. contentLength is -1 until set.
NoCors == [origin |-> "", methods |-> "", headers |-> ""]
\* The three res.setHeader calls at the head of handler.
CorsHeaders == [origin |-> "*", methods |-> "POST, OPTIONS", headers |-> "Content-Type"]
NoResponse ==
    [kind |-> "none", status |-> 0, cors |-> NoCors, contentType |-> "",
     contentLength |-> -1, error |-> "", bytes |-> <<>>]

\* The upstream request body (googleRequestBody), none before it is built.
NoPayload ==
    [built |-> FALSE, text |-> Undefined, languageCode |-> <<>>,
     name |-> Undefined, speakingRate |-> Undefined]

\* No invocation yet.
IdleCall ==
    [pc |-> "idle", req |-> [method |-> "OPTIONS", body |-> NoBody],
     apiKey |-> Undefined, keyRead |-> FALSE, payload |-> NoPayload,
     upstreamCalls |-> 0, up |-> NoOutcome, res |-> NoResponse,
     log |-> <<>>, fault |-> ""]

\* res.status(code).end()
End(c, code) ==
    [c EXCEPT !.pc = "done", !.res.kind = "empty", !.res.status = code]

\* res.status(code).json({ error: msg })
Json(c, code, msg) ==
    [c EXCEPT !.pc = "done", !.res.kind = "json", !.res.status = code,
              !.res.contentType = "application/json", !.res.error = msg]

\* An exception outside the try block: the handler's promise rejects and the
\* handler has sent nothing.
Throw(c, msg) == [c EXCEPT !.pc = "fault", !.fault = msg]

CatchSilent(c, msg) == Json(c, 500, MsgInternal \o msg)
\* The catch block: console.error, then 500 with the cause appended.
Catch(c, msg) ==
    Json([c EXCEPT !.log = Append(@, <<"Error:", msg>>)], 500, MsgInternal \o msg)

IsPreflightNever(req) == FALSE
\* req.method === 'OPTIONS'
IsPreflight(req) == req.method = "OPTIONS"

IsPostOnlyGetRejected(req) == req.method # "GET"
\* req.method === 'POST' (the negation guards the 405)
IsPost(req) == req.method = "POST"

\* !text || !voice
MissingFields(body) == Falsy(body.text) \/ Falsy(body.voice)

KeyMissingOnlyEmpty(key) == key.type = "string" /\ key.val = <<>>
\* !apiKey
KeyMissing(key) == Falsy(key)

RECURSIVE Split(_, _)
\* s.split(sep): the segments of s between the separators.
Split(s, sep) ==
    IF \A i \in 1..Len(s) : s[i] # sep THEN <<s>>
    ELSE LET k == CHOOSE i \in 1..Len(s) :
                      s[i] = sep /\ \A j \in 1..(i - 1) : s[j] # sep
         IN <<SubSeq(s, 1, k - 1)>> \o Split(SubSeq(s, k + 1, Len(s)), sep)

RECURSIVE Join(_, _)
\* segs.join(sep)
Join(segs, sep) ==
    IF Len(segs) = 0 THEN <<>>
    ELSE IF Len(segs) = 1 THEN segs[1]
    ELSE segs[1] \o <<sep>> \o Join(Tail(segs), sep)

\* voice.split('-').slice(0, 2).join('-')
LanguageCode(voice) ==
    LET segs == Split(voice, "-")
    IN Join(SubSeq(segs, 1, IF Len(segs) < 2 THEN Len(segs) ELSE 2), "-")

\* googleRequestBody
BuildPayload(body) ==
    [built |-> TRUE, text |-> body.text,
     languageCode |-> LanguageCode(body.voice.val), name |-> body.voice,
     speakingRate |-> OrElse(body.speed, Num(1))]

\* handler from its entry to the await of fetch (or to its early return).
HandlerEntry(req, key) ==
    LET c0 == [IdleCall EXCEPT !.pc = "run", !.req = req, !.res.cors = CorsHeaders]
    IN IF IsPreflight(req) THEN End(c0, 200)
       ELSE IF ~IsPost(req) THEN Json(c0, 405, MsgMethod)
       ELSE IF ~req.body.present THEN Throw(c0, ErrDestructure)
       ELSE IF MissingFields(req.body) THEN Json(c0, 400, MsgMissing)
       ELSE LET c1 == [c0 EXCEPT !.apiKey = key, !.keyRead = TRUE]
            IN IF KeyMissing(key) THEN Json(c1, 500, MsgNoKey)
               ELSE IF req.body.voice.type # "string" THEN Throw(c1, ErrSplit)
               ELSE [c1 EXCEPT !.pc = "fetch",
                               !.payload = BuildPayload(req.body),
                               !.upstreamCalls = @ + 1]

\* response.ok
Ok(status) == status >= 200 /\ status <= 299

ErrorMessageAlwaysGeneric(body) == MsgUpstream
\* errorData.error?.message || 'Failed to generate speech'
ErrorMessage(body) ==
    IF body.error.present /\ body.error.hasMessage /\ body.error.message # ""
    THEN body.error.message
    ELSE MsgUpstream

SendAudioLengthOfText(c, audioContent) ==
    LET audioBuffer == Base64Decode(audioContent.val)
    IN [c EXCEPT !.pc = "done", !.res.kind = "bytes", !.res.status = 200,
                 !.res.contentType = "audio/mpeg",
                 !.res.contentLength = Len(audioContent.val),
                 !.res.bytes = audioBuffer]
\* Buffer.from, the two setHeader calls and res.status(200).send(audioBuffer)
SendAudio(c, audioContent) ==
    LET audioBuffer == Base64Decode(audioContent.val)
    IN [c EXCEPT !.pc = "done", !.res.kind = "bytes", !.res.status = 200,
                 !.res.contentType = "audio/mpeg",
                 !.res.contentLength = Len(audioBuffer),
                 !.res.bytes = audioBuffer]

UpstreamErrorAs500(c, up) == Json(c, 500, ErrorMessage(up.body))
\* res.status(response.status).json({ error: ... })
UpstreamError(c, up) == Json(c, up.status, ErrorMessage(up.body))

\* handler from the settling of fetch to its end (the try block and its catch).
HandlerResume(c, up) ==
    LET c1 == [c EXCEPT !.up = up]
    IN IF up.kind = "reject" THEN Catch(c1, ErrFetch)
       ELSE IF up.body.parse = "invalid" THEN Catch(c1, ErrJson)
       ELSE IF ~Ok(up.status) THEN
            LET c2 == [c1 EXCEPT !.log = Append(@, <<"Google API Error:", "errorData">>)]
            IN IF up.body.parse = "null" THEN Catch(c2, ErrNullBody)
               ELSE UpstreamError(c2, up)
       ELSE IF up.body.parse = "null" THEN Catch(c1, ErrNullBody)
       ELSE LET audioContent == up.body.audio
            IN IF Falsy(audioContent) THEN Json(c1, 500, MsgNoAudio)
               ELSE IF audioContent.type # "string" THEN Catch(c1, ErrBufferArg)
               ELSE SendAudio(c1, audioContent)

\* The platform invokes handler with a request. handler keeps nothing
\* between invocations (its variables are locals and it only reads the
\* credential), so invocations are taken one at a time.
Invoke(req) ==
    /\ call.pc \in {"idle", "done", "fault"}
    /\ served < MaxServed
    /\ call' = HandlerEntry(req, env)
    /\ served' = served + 1
    /\ UNCHANGED <<env, clientVars>>

\* The awaited fetch settles and handler runs to its end.
UpstreamSettles(up) ==
    /\ call.pc = "fetch"
    /\ call' = HandlerResume(call, up)
    /\ UNCHANGED <<env, served, clientVars>>

\* The operator sets or unsets the credential in the deployment.
SetCredential(key) ==
    /\ key # env
    /\ env' = key
    /\ UNCHANGED <<call, served, clientVars>>

RelayInit ==
    /\ env = Undefined
    /\ call = IdleCall
    /\ served = 0

\* ----------------------------------------------------------- the client
\* Messages of the client (the string literals of script.js).
MsgEmpty == "Please enter some text for your script"
MsgTooShort == "Script is too short. Please add more text."
MsgGenerate == "Failed to generate audio"
MsgNoDownload == "No audio to download. Please generate audio first."
\* error.message of a rejected fetch; a failed response.json() raises
\* ErrJson, and reading a property of a null body ErrNullBody.
ErrFailedToFetch == "Failed to fetch"

\* The least length of a script, in characters.
MinLength == 10

\* --- what the user types
Blanks(n) == [i \in 1..n |-> " "]
\* n characters, with a blank inside when there is room for one.
Core(n) == [i \in 1..n |-> IF i = 2 /\ n >= 3 THEN " " ELSE "x"]
\* Every text up to MaxText characters; and, with blanks before it, after it
\* or both, the empty text and the texts at the least length and just below.
Inputs ==
    {Core(n) : n \in 0..MaxText}
    \cup {Blanks(l) \o Core(n) \o Blanks(r) :
             l \in {0, MaxBlank}, r \in {0, MaxBlank},
             n \in {0, MinLength - 1, MinLength}}

WhiteSpace == {" ", "\t", "\n"}

RECURSIVE TrimStart(_)
TrimStart(s) ==
    IF Len(s) > 0 /\ s[1] \in WhiteSpace THEN TrimStart(Tail(s)) ELSE s

RECURSIVE TrimEnd(_)
TrimEnd(s) ==
    IF Len(s) > 0 /\ s[Len(s)] \in WhiteSpace
    THEN TrimEnd(SubSeq(s, 1, Len(s) - 1))
    ELSE s

\* scriptInput.value.trim()
Trim(s) == TrimEnd(TrimStart(s))

\* --- the elements
InitDom ==
    [loading |-> FALSE, error |-> FALSE, success |-> FALSE, preview |-> FALSE,
     disabled |-> FALSE, errorText |-> "", audioSrc |-> <<>>]

showLoading(d) ==
    [d EXCEPT !.loading = TRUE, !.error = FALSE, !.success = FALSE,
              !.preview = FALSE, !.disabled = TRUE]

hideLoading(d) == [d EXCEPT !.loading = FALSE, !.disabled = FALSE]

showError(d, message) ==
    hideLoading([d EXCEPT !.errorText = message, !.error = TRUE])

showSuccess(d) == hideLoading([d EXCEPT !.success = TRUE, !.preview = TRUE])

\* currentAudioBlob: null, or a Blob (truthy whatever its size).
NoBlob == [has |-> FALSE, bytes |-> <<>>]
BlobFalsyWhenEmpty(b) == [has |-> b # <<>>, bytes |-> b]
Blob(b) == [has |-> TRUE, bytes |-> b]

\* --- what the client's fetch of /api/generate-speech settles with
ClientAudio == {<<>>, <<77>>}
\* The error member of a JSON error body: absent, or a string.
ClientErrors ==
    {[present |-> FALSE, message |-> ""], [present |-> TRUE, message |-> ""],
     [present |-> TRUE, message |-> MsgNoKey],
     [present |-> TRUE, message |-> "quota exceeded"]}
NoClientError == [present |-> FALSE, message |-> ""]
ClientOutcomes ==
    {[kind |-> "reject", ok |-> FALSE, parse |-> "none", error |-> NoClientError, bytes |-> <<>>]}
    \cup [kind : {"response"}, ok : {TRUE}, parse : {"none"},
          error : {NoClientError}, bytes : ClientAudio]
    \cup [kind : {"response"}, ok : {FALSE}, parse : {"invalid", "null"},
          error : {NoClientError}, bytes : {<<>>}]
    \cup [kind : {"response"}, ok : {FALSE}, parse : {"object"},
          error : ClientErrors, bytes : {<<>>}]

\* The form's voice and speed (voiceSelect.value, parseFloat(speedRange.value)).
FormVoice == Str(<<"e", "n", "-", "U", "S", "-", "N", "2", "-", "A">>)
FormSpeed == Num(1)
\* Date.now()
Times == {1, 2}
NoSave == [saved |-> FALSE, name |-> <<>>, bytes |-> <<>>]

\* !text
IsEmptyText(text) == text = <<>>

TooShortOffByOne(text) == Len(text) <= MinLength
TooShortBelowNine(text) == Len(text) < MinLength - 1
\* text.length < 10
TooShort(text) == Len(text) < MinLength

RelayErrorTextAlwaysGeneric(error) == MsgGenerate
\* errorData.error || 'Failed to generate audio'
RelayErrorText(error) ==
    IF error.present /\ error.message # "" THEN error.message ELSE MsgGenerate

\* The 'input' listener of scriptInput: the user edits the text.
TypeText(s) ==
    /\ s # scriptInput
    /\ scriptInput' = s
    /\ UNCHANGED <<dom, currentAudioBlob, inflight, lastSave, relayVars>>

\* A click on generateBtn (a disabled button fires none): generateAudio up
\* to its await of fetch.
GenerateClick ==
    /\ ~dom.disabled
    /\ LET text == Trim(scriptInput)
       IN IF IsEmptyText(text) THEN
               /\ dom' = showError(dom, MsgEmpty)
               /\ UNCHANGED inflight
          ELSE IF TooShort(text) THEN
               /\ dom' = showError(dom, MsgTooShort)
               /\ UNCHANGED inflight
          ELSE /\ Len(inflight) < MaxInFlight
               /\ dom' = showLoading(dom)
               /\ inflight' =
                      Append(inflight,
                             [text |-> text, voice |-> FormVoice, speed |-> FormSpeed])
    /\ UNCHANGED <<scriptInput, currentAudioBlob, lastSave, relayVars>>

FetchSettlesDropsBlobOnFailure(i, r) ==
    /\ i \in 1..Len(inflight)
    /\ inflight' = SubSeq(inflight, 1, i - 1) \o SubSeq(inflight, i + 1, Len(inflight))
    /\ IF r.kind = "reject" THEN
            /\ dom' = showError(dom, ErrFailedToFetch)
            /\ currentAudioBlob' = NoBlob
       ELSE IF ~r.ok THEN
            /\ dom' = showError(dom,
                    IF r.parse = "invalid" THEN ErrJson
                    ELSE IF r.parse = "null" THEN ErrNullBody
                    ELSE RelayErrorText(r.error))
            /\ currentAudioBlob' = NoBlob
       ELSE /\ currentAudioBlob' = Blob(r.bytes)
            /\ dom' = showSuccess([dom EXCEPT !.audioSrc = r.bytes])
    /\ UNCHANGED <<scriptInput, lastSave, relayVars>>
\* The i-th awaited relay call settles with r and its generateAudio runs to
\* its end. Nothing of the page is touched between the settling of fetch and
\* that of response.json() or response.blob(), so the two are one step.
FetchSettles(i, r) ==
    /\ i \in 1..Len(inflight)
    /\ inflight' = SubSeq(inflight, 1, i - 1) \o SubSeq(inflight, i + 1, Len(inflight))
    /\ IF r.kind = "reject" THEN
            /\ dom' = showError(dom, ErrFailedToFetch)
            /\ UNCHANGED currentAudioBlob
       ELSE IF ~r.ok THEN
            /\ dom' = showError(dom,
                    IF r.parse = "invalid" THEN ErrJson
                    ELSE IF r.parse = "null" THEN ErrNullBody
                    ELSE RelayErrorText(r.error))
            /\ UNCHANGED currentAudioBlob
       ELSE /\ currentAudioBlob' = Blob(r.bytes)
            /\ dom' = showSuccess([dom EXCEPT !.audioSrc = r.bytes])
    /\ UNCHANGED <<scriptInput, lastSave, relayVars>>

\* A click on downloadBtn at time t: downloadAudio.
DownloadClick(t) ==
    /\ IF ~currentAudioBlob.has THEN
            /\ dom' = showError(dom, MsgNoDownload)
            /\ UNCHANGED lastSave
       ELSE /\ lastSave' =
                   [saved |-> TRUE, name |-> <<"voiceover-", t, ".mp3">>,
                    bytes |-> currentAudioBlob.bytes]
            /\ UNCHANGED dom
    /\ UNCHANGED <<scriptInput, currentAudioBlob, inflight, relayVars>>

ClientInit ==
    /\ scriptInput = <<>>
    /\ dom = InitDom
    /\ currentAudioBlob = NoBlob
    /\ inflight = <<>>
    /\ lastSave = NoSave

\* ---------------------------------------------------------- specifications
Init == RelayInit /\ ClientInit

\* The relay, invoked with any request under any credential and answered by
\* the upstream in any way.
Next ==
    \/ \E req \in Requests : Invoke(req)
    \/ \E up \in Outcomes : UpstreamSettles(up)
    \/ \E key \in EnvVals : SetCredential(key)

Spec == Init /\ [][Next]_vars

\* The client page under any sequence of user events and relay answers.
ClientNext ==
    \/ \E s \in Inputs : TypeText(s)
    \/ GenerateClick
    \/ \E i \in 1..MaxInFlight : \E r \in ClientOutcomes : FetchSettles(i, r)
    \/ \E t \in Times : DownloadClick(t)

ClientSpec == Init /\ [][ClientNext]_vars

\* ------------------------------------------------------------ the claims
\* The invocation has returned or thrown.
Finished == call.pc \in {"done", "fault"}
\* The invocation answered with status code and the JSON body {error: msg}.
Answered(code, msg) ==
    /\ call.pc = "done"
    /\ call.res.kind = "json"
    /\ call.res.status = code
    /\ call.res.error = msg
\* The upstream answered the invocation with a non-success response.
UpstreamFailed ==
    /\ call.pc = "done"
    /\ call.up.kind = "response"
    /\ ~(call.up.status \in 200..299)
\* The upstream answered the invocation with a success response that parsed
\* to an object.
UpstreamSucceeded ==
    /\ call.pc = "done"
    /\ call.up.kind = "response"
    /\ call.up.status \in 200..299
    /\ call.up.body.parse = "object"
\* The invocation sent a 200 audio response.
AudioSent ==
    /\ call.pc = "done"
    /\ call.res.kind = "bytes"
    /\ call.res.status = 200
    /\ call.res.contentType = "audio/mpeg"

\* C1: every POST whose body lacks text or voice, a body absent altogether
\* included, is answered 400 'Missing required fields: text and voice' and
\* causes no upstream call.
C1_MissingFieldsAnswered400 ==
    (/\ Finished
     /\ call.req.method = "POST"
     /\ \/ ~call.req.body.present
        \/ Falsy(call.req.body.text)
        \/ Falsy(call.req.body.voice))
    => Answered(400, MsgMissing) /\ call.upstreamCalls = 0

\* C2: an invocation whose method is neither POST nor OPTIONS is answered
\* 405 'Method not allowed. Use POST.' and never calls the upstream,
\* whatever its body and the credential.
C2_OtherMethodsAnswered405 ==
    (call.pc # "idle" /\ call.req.method \notin {"POST", "OPTIONS"})
    => /\ Answered(405, MsgMethod)
       /\ call.upstreamCalls = 0
       /\ ~call.payload.built
\* A PUT carrying text and voice, with the credential set, got 405.
C2_Witness ==
    /\ call.req.method = "PUT"
    /\ call.req.body.present
    /\ ~Falsy(call.req.body.text)
    /\ call.req.body.voice.type = "string"
    /\ ~Falsy(call.req.body.voice)
    /\ env = Str(<<"k">>)
    /\ Answered(405, MsgMethod)

\* C3: a POST carrying text and voice served while the credential is unset
\* (or empty) is answered 500 'Server configuration error: API key not
\* found' without an upstream call, however many requests came before it.
C3_NoCredentialAnswered500 ==
    (/\ call.pc # "idle"
     /\ call.req.method = "POST"
     /\ call.req.body.present
     /\ ~Falsy(call.req.body.text)
     /\ ~Falsy(call.req.body.voice)
     /\ call.apiKey \in {Undefined, Str(<<>>)})
    => /\ call.keyRead
       /\ Answered(500, MsgNoKey)
       /\ call.upstreamCalls = 0
       /\ call.up = NoOutcome
\* The third request in a row failed so, the credential still unset.
C3_Witness ==
    /\ served = 3
    /\ env = Undefined
    /\ call.req.method = "POST"
    /\ call.keyRead
    /\ call.apiKey = Undefined
    /\ Answered(500, MsgNoKey)

\* C4 as stated: a non-success upstream response with status S and error
\* message M is answered with status S and body {error: M}, for every M.
C4_EveryMessageForwarded ==
    (/\ UpstreamFailed
     /\ call.up.body.parse = "object"
     /\ call.up.body.error.present
     /\ call.up.body.error.hasMessage)
    => Answered(call.up.status, call.up.body.error.message)
\* C4 amended: a non-success upstream response with status S and a non-empty
\* error message M is answered with status S and body {error: M}; an empty M
\* is answered with status S and the generic message.
C4_NonEmptyMessageForwarded ==
    (/\ UpstreamFailed
     /\ call.up.body.parse = "object"
     /\ call.up.body.error.present
     /\ call.up.body.error.hasMessage)
    => IF call.up.body.error.message # ""
       THEN Answered(call.up.status, call.up.body.error.message)
       ELSE Answered(call.up.status, MsgUpstream)
\* Scenario E: the upstream's 403 'quota exceeded' was forwarded.
C4_Witness ==
    /\ UpstreamFailed
    /\ call.up.status = 403
    /\ call.up.body.error.message = "quota exceeded"
    /\ Answered(403, "quota exceeded")

\* C5 as stated: every non-success upstream response is answered with the
\* upstream's status code, whatever its body (unparseable included), with
\* the generic message when the body supplies none.
C5_SameStatusWhateverBody ==
    UpstreamFailed
    => /\ call.res.status = call.up.status
       /\ (~call.up.body.error.hasMessage => call.res.error = MsgUpstream)
\* C5 amended: a non-success upstream response whose body parses to an
\* object is answered with the upstream's status code, with the generic
\* message when the body supplies no (non-empty) message; one whose body
\* cannot be parsed, or is null, is answered 500 'Internal server error:
\* <cause>'.
C5_SameStatusForParsedBody ==
    /\ (UpstreamFailed /\ call.up.body.parse = "object")
       => /\ call.res.kind = "json"
          /\ call.res.status = call.up.status
          /\ (\/ ~call.up.body.error.hasMessage
              \/ call.up.body.error.message = "")
             => call.res.error = MsgUpstream
    /\ (UpstreamFailed /\ call.up.body.parse = "invalid")
       => Answered(500, MsgInternal \o ErrJson)
    /\ (UpstreamFailed /\ call.up.body.parse = "null")
       => Answered(500, MsgInternal \o ErrNullBody)
\* A 503 whose body has no error member was answered 503 with the generic
\* message.
C5_Witness ==
    /\ UpstreamFailed
    /\ call.up.status = 503
    /\ call.up.body.parse = "object"
    /\ ~call.up.body.error.present
    /\ Answered(503, MsgUpstream)

C7_RoundTripEverySequence ==
    \A B \in ByteSeqs :
        (UpstreamSucceeded /\ call.up.body.audio = Str(Base64Encode(B)))
        => AudioSent /\ call.res.bytes = B
\* C7 amended: the same for every non-empty byte sequence B; the encoding of
\* the empty sequence is the empty string, which is answered 500 'No audio
\* content received from Google'.
C7_RoundTripNonEmptySequence ==
    /\ \A B \in ByteSeqs \ {<<>>} :
           (UpstreamSucceeded /\ call.up.body.audio = Str(Base64Encode(B)))
           => AudioSent /\ call.res.bytes = B /\ call.res.contentLength = Len(B)
    /\ (UpstreamSucceeded /\ call.up.body.audio = Str(Base64Encode(<<>>)))
       => Answered(500, MsgNoAudio)
\* The bytes 77 255 came back from their encoding, which is padded.
C7_Witness ==
    /\ UpstreamSucceeded
    /\ call.up.body.audio = Str(Base64Encode(<<77, 255>>))
    /\ call.up.body.audio.val[4] = Pad
    /\ AudioSent
    /\ call.res.bytes = <<77, 255>>

\* C8: every failure in the handling of a request (of the upstream call, of
\* parsing an upstream body, of reading the request, of building the
\* upstream payload) is answered 500 'Internal server error: <cause>', and
\* no invocation ends with an unhandled fault and without a response.
C8_EveryFailureAnswered500 ==
    /\ call.pc # "fault"
    /\ Finished => call.res.kind # "none"
    /\ (call.pc = "done" /\ call.up.kind = "reject")
       => Answered(500, MsgInternal \o ErrFetch)
    /\ (call.pc = "done" /\ call.up.body.parse = "invalid")
       => Answered(500, MsgInternal \o ErrJson)

\* The request passed the method, field and credential checks.
PassedChecks ==
    /\ call.req.method = "POST"
    /\ call.req.body.present
    /\ ~Falsy(call.req.body.text)
    /\ ~Falsy(call.req.body.voice)
    /\ call.keyRead
    /\ ~Falsy(call.apiKey)

\* C9: a request that passes the method, field and credential checks causes
\* exactly one upstream call, every other request none, and none more than
\* one, whatever the upstream answers.
C9_ExactlyOneUpstreamCall ==
    call.pc # "idle"
    => call.upstreamCalls = (IF PassedChecks THEN 1 ELSE 0)

\* C10: generateAudio fails with the empty-input message iff the trimmed
\* text has length 0, with the too-short message iff its length is in 1..9,
\* and otherwise (whatever the length) submits the trimmed text.
C10_ValidationPartition ==
    [][GenerateClick =>
        LET t == Trim(scriptInput)
            failed(m) ==
                /\ dom'.error
                /\ dom'.errorText = m
                /\ ~dom'.loading
                /\ inflight' = inflight
            submitted ==
                /\ dom'.loading
                /\ ~dom'.error
                /\ Len(inflight') = Len(inflight) + 1
                /\ inflight'[Len(inflight')].text = t
        IN /\ failed(MsgEmpty) <=> Len(t) = 0
           /\ failed(MsgTooShort) <=> (0 < Len(t) /\ Len(t) < 10)
           /\ submitted <=> Len(t) >= 10
    ]_vars
\* A text of exactly ten characters, typed with blanks around it, was
\* submitted trimmed.
C10_Witness ==
    /\ Len(scriptInput) = 10 + 2 * MaxBlank
    /\ Len(Trim(scriptInput)) = 10
    /\ Len(inflight) = 1
    /\ inflight[1].text = Trim(scriptInput)
    /\ dom.loading

\* C11: a relay call is issued only by a generate click whose trimmed text
\* passed validation (ten characters or more), and it carries that text; a
\* click whose text fails validation issues none.
C11_NoCallWithoutValidation ==
    [][/\ inflight' # inflight /\ Len(inflight') >= Len(inflight)
          => /\ GenerateClick
             /\ Len(Trim(scriptInput)) >= 10
             /\ inflight' = Append(inflight, inflight'[Len(inflight')])
             /\ inflight'[Len(inflight')].text = Trim(scriptInput)
       /\ (GenerateClick /\ Len(Trim(scriptInput)) < 10)
          => inflight' = inflight
       /\ \A i \in 1..Len(inflight') : Len(inflight'[i].text) >= 10
    ]_vars
\* Scenario B: the five characters "x xxx" were refused as too short and no
\* call is in flight.
C11_Witness ==
    /\ Len(Trim(scriptInput)) = 5
    /\ dom.error
    /\ dom.errorText = MsgTooShort
    /\ inflight = <<>>
    /\ ~dom.loading

\* C12: while a relay call of the client is in flight the page is busy: the
\* generate control is disabled, the loading indicator shown, the error and
\* success panels hidden, whatever the user does meanwhile; the busy state
\* ends only when the call settles.
C12_BusyWhileInFlight ==
    inflight # <<>>
    => /\ dom.disabled
       /\ dom.loading
       /\ ~dom.error
       /\ ~dom.success

\* A relay call of the client settles with a success response.
SubmitSucceeds ==
    \E i \in 1..Len(inflight) : \E r \in ClientOutcomes :
        r.kind = "response" /\ r.ok /\ FetchSettles(i, r)

\* C13: a download click fails with 'No audio to download...' iff no submit
\* has succeeded so far in the page session; once one has, every download
\* click saves the stored blob as voiceover-<Date.now()>.mp3 and reports no
\* error.
C13_DownloadIffArtifact ==
    [][/\ \A t \in Times :
              DownloadClick(t)
              => IF currentAudioBlob.has
                 THEN /\ lastSave' =
                             [saved |-> TRUE,
                              name |-> <<"voiceover-", t, ".mp3">>,
                              bytes |-> currentAudioBlob.bytes]
                      /\ dom' = dom
                 ELSE /\ dom'.error
                      /\ dom'.errorText = MsgNoDownload
                      /\ lastSave' = lastSave
       /\ SubmitSucceeds => currentAudioBlob'.has
       /\ currentAudioBlob.has => currentAudioBlob'.has
       /\ (~currentAudioBlob.has /\ currentAudioBlob'.has) => SubmitSucceeds
    ]_vars
\* An artifact of zero bytes was saved at time 2, with no error shown.
C13_Witness ==
    /\ currentAudioBlob = Blob(<<>>)
    /\ lastSave.saved
    /\ lastSave.name = <<"voiceover-", 2, ".mp3">>
    /\ lastSave.bytes = <<>>
    /\ ~dom.error

\* After the step the error panel is shown and the page is idle: loading
\* hidden, generate control enabled.
ErrorShownIdle ==
    /\ dom'.error
    /\ ~dom'.loading
    /\ ~dom'.disabled
\* The i-th relay call settles with the failure r. A settling call leaves
\* inflight, so only steps that shorten inflight can be settlements.
SubmitFailsWith(i, r) ==
    /\ ~(r.kind = "response" /\ r.ok)
    /\ FetchSettles(i, r)

\* C14 as stated: every failed generation attempt (validation failure,
\* non-success relay response with or without a parseable error body,
\* network failure) ends, once its call has settled, with the error shown and
\* the page idle; for a non-success response the message shown is the
\* relay's error string verbatim, or 'Failed to generate audio' when the
\* error body carries none.
C14_RelayErrorShownOrGeneric ==
    [][/\ (GenerateClick /\ Len(Trim(scriptInput)) < 10) => ErrorShownIdle
       /\ Len(inflight') < Len(inflight)
          => \A i \in 1..Len(inflight) : \A r \in ClientOutcomes :
              SubmitFailsWith(i, r)
              => /\ ErrorShownIdle
                 /\ r.kind = "response"
                    => dom'.errorText =
                           (IF r.parse = "object" /\ r.error.present
                                                  /\ r.error.message # ""
                            THEN r.error.message
                            ELSE MsgGenerate)
    ]_vars
\* C14 amended: every failed generation attempt ends, at the step in which
\* its call settles (or at the click, for a validation failure), with the
\* error shown and the page idle; the message is the relay's error string
\* verbatim when the body parses to an object with a non-empty error,
\* 'Failed to generate audio' when the parsed object carries none, and the
\* failure's own message when the body cannot be parsed, is null, or the
\* call itself failed.
C14_FailureShownIdle ==
    [][/\ (GenerateClick /\ Len(Trim(scriptInput)) < 10) => ErrorShownIdle
       /\ Len(inflight') < Len(inflight)
          => \A i \in 1..Len(inflight) : \A r \in ClientOutcomes :
              SubmitFailsWith(i, r)
              => /\ ErrorShownIdle
                 /\ dom'.errorText =
                        (IF r.kind = "reject" THEN ErrFailedToFetch
                         ELSE IF r.parse = "invalid" THEN ErrJson
                         ELSE IF r.parse = "null" THEN ErrNullBody
                         ELSE IF r.error.present /\ r.error.message # ""
                              THEN r.error.message
                         ELSE MsgGenerate)
    ]_vars
\* The relay's 'quota exceeded' is shown and the page is idle again.
C14_Witness ==
    /\ dom.error
    /\ dom.errorText = "quota exceeded"
    /\ ~dom.loading
    /\ ~dom.disabled
    /\ inflight = <<>>

\* C15: exactly one outcome is rendered per generation cycle: whenever no
\* attempt is running and an attempt has ended, exactly one of the error
\* panel and the success panel (with preview) is shown and the loading
\* indicator is hidden; the two panels are never shown together.
C15_ExactlyOneOutcome ==
    /\ ~(dom.error /\ dom.success)
    /\ (inflight = <<>> /\ (dom.error \/ dom.success \/ dom.loading))
       => /\ ~dom.loading
          /\ dom.error # dom.success
          /\ dom.success => dom.preview

\* The causes the catch block can report.
Causes == {ErrFetch, ErrJson, ErrNullBody, ErrBufferArg}
\* The line console.error writes for a forwarded upstream error.
UpstreamLogLine == <<"Google API Error:", "errorData">>

\* C16 as stated: every relay-side error response (405, 400, 500 missing
\* credential, forwarded upstream error, 500 missing audio, 500 internal
\* error) is written to the operator's log stream.
C16_EveryErrorResponseLogged ==
    (call.pc = "done" /\ call.res.kind = "json") => call.log # <<>>
\* C16 amended: a forwarded upstream error and a 500 internal error are
\* written to the operator's log stream in addition to being returned; the
\* 405, 400, 500 missing-credential and 500 missing-audio responses are
\* returned without any log line.
C16_UpstreamAndInternalErrorsLogged ==
    /\ \A msg \in Causes :
           Answered(500, MsgInternal \o msg)
           => /\ call.log # <<>>
              /\ call.log[Len(call.log)] = <<"Error:", msg>>
    /\ (UpstreamFailed /\ call.up.body.parse # "invalid")
       => call.log[1] = UpstreamLogLine
    /\ (\/ Answered(405, MsgMethod)
        \/ Answered(400, MsgMissing)
        \/ Answered(500, MsgNoKey)
        \/ Answered(500, MsgNoAudio))
       => call.log = <<>>
\* A 403 whose body is JSON null: logged as an upstream error, then logged
\* again by the catch block and answered 500.
C16_Witness ==
    /\ UpstreamFailed
    /\ call.up.status = 403
    /\ Answered(500, MsgInternal \o ErrNullBody)
    /\ call.log = <<UpstreamLogLine, <<"Error:", ErrNullBody>>>>

\* C17: a pre-flight (OPTIONS) request is answered 200 with an empty body
\* and no business logic: the body is not read (an absent body does not
\* throw), the credential is not consulted, no upstream payload is built
\* and the upstream is not called; and every response the relay sends
\* carries Access-Control-Allow-Origin: *, methods 'POST, OPTIONS' and
\* header 'Content-Type'.
C17_PreflightAnsweredWithoutLogic ==
    /\ (call.pc # "idle" /\ call.req.method = "OPTIONS")
       => /\ call.pc = "done"
          /\ call.res.kind = "empty"
          /\ call.res.status = 200
          /\ call.res.bytes = <<>>
          /\ call.res.error = ""
          /\ call.fault = ""
          /\ ~call.keyRead
          /\ ~call.payload.built
          /\ call.upstreamCalls = 0
          /\ call.log = <<>>
    /\ call.res.kind # "none"
       => /\ call.res.cors.origin = "*"
          /\ call.res.cors.methods = "POST, OPTIONS"
          /\ call.res.cors.headers = "Content-Type"
\* A pre-flight without a body, with no credential configured, answered.
C17_Witness ==
    /\ call.pc = "done"
    /\ call.req.method = "OPTIONS"
    /\ call.req.body = NoBody
    /\ env = Undefined
    /\ call.res.status = 200
    /\ call.res.kind = "empty"
    /\ call.res.cors = CorsHeaders

\* C18: the stored artifact is changed only by a submit that succeeds,
\* which replaces it with the audio just received; a failed validation, a
\* failed submit and a download, successful or not, leave it unchanged, so
\* an artifact produced earlier stays held after a later attempt fails.
C18_ArtifactChangedOnlyBySuccess ==
    [][/\ currentAudioBlob' # currentAudioBlob
          => /\ SubmitSucceeds
             /\ ~GenerateClick
             /\ \A t \in Times : ~DownloadClick(t)
             /\ \A i \in 1..Len(inflight) : \A r \in ClientOutcomes :
                    ~SubmitFailsWith(i, r)
       /\ Len(inflight') < Len(inflight)
          => \A i \in 1..Len(inflight) : \A b \in ClientAudio :
                 FetchSettles(i, [kind |-> "response", ok |-> TRUE, parse |-> "none",
                                  error |-> NoClientError, bytes |-> b])
                 => currentAudioBlob' = Blob(b)
    ]_vars
\* The artifact of an earlier success is held, and has been saved, while the
\* error of a failed attempt is shown.
C18_Witness ==
    /\ currentAudioBlob = Blob(<<77>>)
    /\ dom.error
    /\ dom.errorText = ErrFailedToFetch
    /\ inflight = <<>>
    /\ lastSave.saved
    /\ lastSave.bytes = <<77>>

\* C19: at most one relay request of the client is in flight at any time,
\* in every interleaving of generate clicks (fired only while the control
\* is enabled), download clicks and settlements: a second submit does not
\* start before the previous one has settled.
C19_AtMostOneInFlight ==
    Len(inflight) <= 1

\* C20: the relay applies its checks in a fixed order and the first failing
\* one alone decides the response: pre-flight (200, empty), then method
\* (405), then required fields (400, a body absent altogether included),
\* then credential (500), then the upstream call; whatever the later
\* checks would have said.
C20_FirstFailingCheckDecides ==
    Finished
    => IF call.req.method = "OPTIONS"
       THEN call.res.kind = "empty" /\ call.res.status = 200
       ELSE IF call.req.method # "POST"
       THEN Answered(405, MsgMethod)
       ELSE IF \/ ~call.req.body.present
               \/ Falsy(call.req.body.text)
               \/ Falsy(call.req.body.voice)
       THEN Answered(400, MsgMissing)
       ELSE IF Falsy(call.apiKey)
       THEN Answered(500, MsgNoKey)
       ELSE call.upstreamCalls = 1

=============================================================================
